---------------------------- MODULE Spec2Model ----------------------------
(***************************************************************************)
(* State-machine model of the GRU sequence classifier                      *)
(* (src/src/classifiers/gru.py) and of the top-k dictionary helper         *)
(* (src/src/utils.py).                                                     *)
(*                                                                         *)
(* Tensors are modelled by their batch structure.  A hidden state of shape *)
(* (n_layers, batch, hidden_dim) is a function from layers to sequences of *)
(* opaque cells, one cell per batch column; a padded batch of shape        *)
(* (seq_len, batch, ...) is a sequence of opaque columns.  Python's        *)
(* 0-based positions are 1-based here.                                     *)
(***************************************************************************)
EXTENDS Integers, Sequences, FiniteSets, TLC

\* ------------------------------------------------------------- bounds
MaxBatch  == 3      \* largest batch handed to forward, largest batch_size
MaxLen    == 3      \* longest sequence
MaxLayers == 2      \* largest n_layers
MaxLabels == 2      \* largest label_size
MaxCorpus == 3      \* largest corpus (instances)
MaxEpochs == 2      \* largest n_epochs
MaxHyper  == 2      \* largest value of a dimension hyperparameter
MaxWeight == 1      \* parameter values are drawn from 0..MaxWeight
MaxItems  == 3      \* largest score mapping
MaxScore  == 2      \* scores are drawn from 0..MaxScore

\* ------------------------------------------------- program constants
PrintEvery == 100   \* running loss is printed and reset every 100 batches

VARIABLES
    clf,          \* the GRUClassifier object (self)
    corpus,       \* corpus.fname_subset, corpus.labels
    orig,         \* the corpus as first given (history, never read by the code)
    n_epochs,     \* argument of train_model
    pc,           \* position in train_model / predict
    mode,         \* which loop is running: "none", "train", "predict"
    i,            \* epoch counter of train_model
    idx,          \* batch counter of the running loop
    batches,      \* batches still to be yielded by corpus_encoder.get_batches
    cur,          \* cur_insts, cur_labels, cur_lengths of the current batch
    fwd,          \* what the last forward call computed
    prev_hidden,  \* final hidden state of the previous batch's forward (history)
    loss,         \* loss of the current batch
    grads,        \* batches whose gradients are accumulated in the parameters' .grad
    running_loss, \* number of losses accumulated since the last reset
    trace,        \* steps taken for the current batch (history)
    hist,         \* per-call counters (history)
    y_pred,       \* predict's y_pred
    y_true,       \* predict's y_true
    files,        \* checkpoint directory: file name -> saved state or NoFile
    saved_from,   \* file name -> classifier as it was when saved (history)
    loaded,       \* outcome of the last GRUClassifier.load
    data_dict,    \* get_top_items_dict arguments
    k,
    order,
    top           \* get_top_items_dict result

loopVars == <<n_epochs, pc, mode, i, idx, batches, cur, fwd, prev_hidden, loss,
              grads, running_loss, trace, hist, y_pred, y_true>>
ckptVars == <<files, saved_from, loaded>>
topVars  == <<data_dict, k, order, top>>
vars     == <<clf, corpus, orig, loopVars, ckptVars, topVars>>

\* ------------------------------------------------------------ helpers
Min(a, b) == IF a <= b THEN a ELSE b
Max(a, b) == IF a >= b THEN a ELSE b

Range(s) == {s[j] : j \in DOMAIN s}

Perms(n) == {p \in [1..n -> 1..n] : \A a, b \in 1..n : a # b => p[a] # p[b]}

\* t[:, index]: gather the batch dimension of t by an index tensor
Gather(t, index) == [j \in 1..Len(index) |-> t[index[j]]]

None == [none |-> TRUE]

\* ---------------------------------------------- TorchUtils (torch_utils)
\* Position of element a in the stable ordering of vals (descending or
\* ascending): elements that compare equal keep their original order.
Rank(vals, a, descending) ==
    1 + Cardinality({b \in DOMAIN vals :
            \/ IF descending THEN vals[b] > vals[a] ELSE vals[b] < vals[a]
            \/ vals[b] = vals[a] /\ b < a})

ArgSort(vals, descending) ==
    [r \in 1..Len(vals) |-> CHOOSE a \in DOMAIN vals : Rank(vals, a, descending) = r]

\* sort orders the batch by descending length; unsort is its inverse
get_sort_unsort(lengths) ==
    LET sort   == ArgSort(lengths, TRUE)
        unsort == ArgSort(sort, FALSE)
    IN  [sort |-> sort, unsort |-> unsort]

\* ------------------------------------------------------- the classifier
CtorArgs == {"n_layers", "hidden_dim", "vocab_size", "padding_idx",
             "embedding_dim", "dropout", "label_size", "batch_size"}

ZeroCell == [kind |-> "zeros"]

\* h0 = torch.zeros(n_gru_layers, batch_size, hidden_dim)
init_hidden(n_gru_layers, batch_size) ==
    [l \in 1..n_gru_layers |-> [j \in 1..batch_size |-> ZeroCell]]

\* shapes of the parameters registered by __init__: embedding, GRU, linear
ParamShapes(c) ==
    [word_embeddings |-> <<c.vocab_size, c.emb_dim>>,
     gru             |-> <<c.n_gru_layers, c.emb_dim, c.hidden_dim>>,
     hidden2label    |-> <<c.hidden_dim, c.n_labels>>]

\* EmbeddingMul(vocab_size, emb_dim, padding_idx=padding_idx): the embedding
\* layer keeps its padding index
EmbeddingMul(vocab_size, emb_dim, padding_idx) ==
    [num_embeddings |-> vocab_size, embedding_dim |-> emb_dim,
     padding_idx |-> padding_idx]

\* GRUClassifier(**kw); w are the randomly initialised parameter values
GRUClassifier(kw, w) ==
    [n_gru_layers |-> kw.n_layers,
     hidden_dim   |-> kw.hidden_dim,
     vocab_size   |-> kw.vocab_size,
     emb_dim      |-> kw.embedding_dim,
     dropout      |-> kw.dropout,
     batch_size   |-> kw.batch_size,
     n_labels     |-> kw.label_size,
     hidden_in    |-> init_hidden(kw.n_layers, kw.batch_size),
     hidden_hist  |-> FALSE,
     word_embeddings |-> EmbeddingMul(kw.vocab_size, kw.embedding_dim, kw.padding_idx),
     weights      |-> w,
     training     |-> TRUE]

\* self.hidden_in.detach_(): drops the autograd history of hidden_in in place;
\* the values stay (hidden_hist: hidden_in is attached to a computation graph)
detach_hidden_(c) == [c EXCEPT !.hidden_hist = FALSE]

\* self.word_embeddings(sentence): one embedded column per batch column
word_embeddings(sentence) == [j \in DOMAIN sentence |-> [emb_of |-> sentence[j]]]

\* faulty variant: the hidden state is passed on uncut
TruncateNone(hidden, cur_batch_len) == hidden

\* hidden[:, :cur_batch_len, :]

TruncateHidden(hidden, cur_batch_len) ==
    [l \in DOMAIN hidden |-> SubSeq(hidden[l], 1, Min(cur_batch_len, Len(hidden[l])))]

\* faulty variant: the lengths are passed on in batch order
PackedLengthsUnsorted(sent_lengths, sort) == sent_lengths

\* sent_lengths[sort]

PackedLengths(sent_lengths, sort) == Gather(sent_lengths, sort)

IsDescending(lengths) ==
    \A a, b \in DOMAIN lengths : a < b => lengths[a] >= lengths[b]

\* nn.utils.rnn.pack_padded_sequence(input, lengths, batch_first=False) with the
\* default enforce_sorted=True: refuses lengths that are not positive or not
\* sorted in decreasing order; keeps, per timestep, only the columns still valid
pack_padded_sequence(input, lengths) ==
    IF \E j \in DOMAIN lengths : lengths[j] <= 0
    THEN [err |-> "RuntimeError: length <= 0"]
    ELSE IF ~IsDescending(lengths)
    THEN [err |-> "RuntimeError: lengths not sorted"]
    ELSE [err |-> "none",
          data |-> [j \in DOMAIN lengths |-> [x |-> input[j], len |-> lengths[j]]],
          batch_sizes |-> [t \in 1..lengths[1] |->
                             Cardinality({j \in DOMAIN lengths : lengths[j] >= t})]]

\* self.gru(embs, hidden): column j of the packed batch is run from column j of
\* the initial hidden state over its len valid timesteps
gru(packed, hidden, n_gru_layers) ==
    IF Len(hidden[1]) # Len(packed.data)
    THEN [err |-> "RuntimeError: hidden size"]
    ELSE [err |-> "none",
          out |-> [data |-> [j \in DOMAIN packed.data |->
                       [kind |-> "out", seq |-> packed.data[j].x,
                        len |-> packed.data[j].len,
                        h0 |-> hidden[n_gru_layers][j]]],
                   batch_sizes |-> packed.batch_sizes],
          hidden |-> [l \in 1..n_gru_layers |-> [j \in DOMAIN packed.data |->
                       [kind |-> "gru", layer |-> l, seq |-> packed.data[j].x,
                        len |-> packed.data[j].len, h0 |-> hidden[l][j]]]]]

\* nn.utils.rnn.pad_packed_sequence: back to a padded batch, columns in packed order
pad_packed_sequence(packedOut) ==
    [padded |-> packedOut.data,
     lengths |-> [j \in DOMAIN packedOut.data |-> packedOut.data[j].len]]

\* faulty variant: the batch is left in sorted order
UnsortSkipped(t, unsort) == t

\* gru_out[:, unsort] and hidden[:, unsort, :]

UnsortBatch(t, unsort) == Gather(t, unsort)

\* F.log_softmax(self.hidden2label(hidden[-1]), dim=1): one row per column of
\* the last layer's hidden state, n_labels columns
LabelScores(last_hidden, n_labels) ==
    [j \in DOMAIN last_hidden |->
        [logp_of |-> last_hidden[j], n_cols |-> n_labels]]

\* GRUClassifier.forward(sentence, sent_lengths, hidden)
forward(c, sentence, sent_lengths, hidden) ==
    LET su            == get_sort_unsort(sent_lengths)
        embs          == word_embeddings(sentence)
        cur_batch_len == Len(sent_lengths)
        hidden0       == TruncateHidden(hidden, cur_batch_len)
        lens          == PackedLengths(sent_lengths, su.sort)
        packed        == pack_padded_sequence(Gather(embs, su.sort), lens)
        base          == [sort |-> su.sort, unsort |-> su.unsort,
                          hidden0 |-> hidden0, packed_lengths |-> lens]
    IN  IF packed.err # "none" THEN base @@ [err |-> packed.err]
        ELSE
        LET r == gru(packed, hidden0, c.n_gru_layers)
        IN  IF r.err # "none" THEN base @@ [err |-> r.err]
            ELSE
            LET padded  == pad_packed_sequence(r.out)
                gru_out == UnsortBatch(padded.padded, su.unsort)
                hidden1 == [l \in DOMAIN r.hidden |-> UnsortBatch(r.hidden[l], su.unsort)]
                y       == LabelScores(hidden1[c.n_gru_layers], c.n_labels)
            IN  base @@ [err |-> "none", gru_out |-> gru_out,
                         hidden |-> hidden1, y |-> y]

\* ------------------------------------------------------------- utils.py
\* faulty variant: reverse is ignored
sorted_ascending(items, reverse) ==
    Gather(items, ArgSort([j \in DOMAIN items |-> items[j][2]], FALSE))

\* sorted(items, key=lambda x: x[1], reverse=...): stable, items are <<key, score>>
sorted_by_score(items, reverse) ==
    Gather(items, ArgSort([j \in DOMAIN items |-> items[j][2]], reverse))

\* s[:n] of Python, n negative counts from the end
SliceTo(s, n) ==
    IF n >= 0 THEN SubSeq(s, 1, Min(n, Len(s)))
    ELSE SubSeq(s, 1, Max(Len(s) + n, 0))

\* get_top_items_dict(data_dict, k, order): data_dict.items() is the sequence
\* of <<key, score>> in insertion order
get_top_items_dict(d, kk, ord) ==
    LET top_items == SliceTo(sorted_by_score(d, TRUE), kk)
    IN  [type |-> IF ord THEN "OrderedDict" ELSE "dict", items |-> top_items]

\* ------------------------------------------- values before any call
NoFile == [absent |-> TRUE]
Files  == {"gru_classifier.tar", "other.tar"}

DefaultClf ==
    GRUClassifier([n_layers |-> 1, hidden_dim |-> 1, vocab_size |-> 1,
                   padding_idx |-> 0, embedding_dim |-> 1, dropout |-> 0,
                   label_size |-> 1, batch_size |-> 1], 0)

EmptyCorpus == [fname_subset |-> <<>>, labels |-> <<>>]

NoHist == [nShuffle |-> 0, nBatch |-> 0, nForward |-> 0, nStep |-> 0,
           nDetach |-> 0, undetached |-> 0, applied |-> <<>>]

LoopIdle ==
    /\ n_epochs = 0 /\ pc = "idle" /\ mode = "none" /\ i = 0 /\ idx = 0
    /\ batches = <<>> /\ cur = None /\ fwd = None /\ prev_hidden = None
    /\ loss = None /\ grads = <<>> /\ running_loss = 0 /\ trace = <<>>
    /\ hist = NoHist /\ y_pred = <<>> /\ y_true = <<>>

CkptIdle ==
    /\ files = [f \in Files |-> NoFile]
    /\ saved_from = [f \in Files |-> None]
    /\ loaded = None

TopIdle == data_dict = <<>> /\ k = 0 /\ order = FALSE /\ top = None

\* ------------------------------------------- corpus and corpus encoder
\* contents of the corpus files: length of instance f
InstLen(f) == 1 + (f % MaxLen)

\* corpus_encoder.get_batches(corpus, batch_size): consecutive groups of
\* batch_size (instances, labels) in corpus order, the last one possibly smaller
get_batches(c, batch_size) ==
    LET n  == Min(Len(c.fname_subset), Len(c.labels))
        nb == (n + batch_size - 1) \div batch_size
    IN  [b \in 1..nb |->
            [insts  |-> SubSeq(c.fname_subset, (b - 1) * batch_size + 1,
                               Min(b * batch_size, n)),
             labels |-> SubSeq(c.labels, (b - 1) * batch_size + 1,
                               Min(b * batch_size, n))]]

\* corpus_encoder.batch_to_tensors(cur_insts, cur_labels, device)
batch_to_tensors(batch) ==
    [insts   |-> batch.insts,
     labels  |-> batch.labels,
     lengths |-> [j \in DOMAIN batch.insts |-> InstLen(batch.insts[j])]]

\* list(zip(a, b)): pairs up to the shorter of the two
zip_lists(a, b) == [j \in 1..Min(Len(a), Len(b)) |-> <<a[j], b[j]>>]

\* faulty variant: the instances are shuffled without their labels
shuffled_fnames_only(c, p) ==
    [fname_subset |-> Gather(c.fname_subset, p), labels |-> c.labels]

\* combined = list(zip(fname_subset, labels)); shuffle(combined), p being the
\* permutation the random generator picks; fname_subset, labels = zip(*combined)

shuffled_corpus(c, p) ==
    LET combined == Gather(zip_lists(c.fname_subset, c.labels), p)
    IN  [fname_subset |-> [j \in DOMAIN combined |-> combined[j][1]],
         labels       |-> [j \in DOMAIN combined |-> combined[j][2]]]

\* ------------------------------------------------ train_model, predict
\* faulty variant: back-propagation before the gradients are cleared
TrainStepsBackwardFirst ==
    <<"forward", "loss", "backward", "zero_grad", "step", "detach", "accumulate">>

\* order of the statements of train_model's loop body
TrainSteps ==
    <<"forward", "loss", "zero_grad", "backward", "step", "detach", "accumulate">>

\* faulty variant: predict without the detach
PredictStepsNoDetach == <<"forward", "argmax">>

\* order of the statements of predict's loop body
PredictSteps == <<"detach", "forward", "argmax">>

Steps == IF mode = "train" THEN TrainSteps ELSE PredictSteps

\* the statement after s in the body, or back to the loop head
After(s) ==
    LET at == CHOOSE a \in DOMAIN Steps : Steps[a] = s
    IN  IF at = Len(Steps) THEN "next_batch" ELSE Steps[at + 1]

Init ==
    /\ \E bs \in 1..MaxBatch, w \in 0..MaxWeight :
          clf = GRUClassifier([n_layers |-> MaxLayers, hidden_dim |-> 1,
                               vocab_size |-> 1, padding_idx |-> 0,
                               embedding_dim |-> 1, dropout |-> 0,
                               label_size |-> MaxLabels, batch_size |-> bs], w)
    /\ \E n \in 0..MaxCorpus : \E labs \in [1..n -> {0, MaxLabels - 1}] :
          corpus = [fname_subset |-> [j \in 1..n |-> j], labels |-> labs]
    /\ orig = corpus
    /\ LoopIdle /\ CkptIdle /\ TopIdle

\* train_model entered: self.train() (nothing an earlier call left in its
\* local names is visible to this one)
TrainCall ==
    /\ pc \in {"idle", "returned"}
    /\ mode' = "train"
    /\ clf' = [clf EXCEPT !.training = TRUE]
    /\ n_epochs' \in 0..MaxEpochs
    /\ i' = 0 /\ idx' = 0 /\ batches' = <<>> /\ cur' = None /\ fwd' = None
    /\ prev_hidden' = None /\ loss' = None /\ running_loss' = 0
    /\ trace' = <<>> /\ hist' = NoHist
    /\ y_pred' = <<>> /\ y_true' = <<>>
    /\ pc' = "epoch"
    /\ UNCHANGED <<corpus, orig, grads, ckptVars, topVars>>

\* for i in range(n_epochs): i counts the epochs completed
EpochNext ==
    /\ mode = "train" /\ pc = "epoch"
    /\ IF i < n_epochs
       THEN running_loss' = 0 /\ pc' = "shuffle"
       ELSE running_loss' = running_loss /\ pc' = "returned"
    /\ UNCHANGED <<clf, corpus, orig, n_epochs, mode, i, idx, batches, cur, fwd,
                   prev_hidden, loss, grads, trace, hist, y_pred, y_true,
                   ckptVars, topVars>>

\* the shuffle of the corpus; unpacking zip(*[]) of an empty corpus raises
ShuffleCorpus ==
    /\ mode = "train" /\ pc = "shuffle"
    /\ \E p \in Perms(Min(Len(corpus.fname_subset), Len(corpus.labels))) :
          IF Len(p) = 0
          THEN corpus' = corpus /\ pc' = "raised"
          ELSE corpus' = shuffled_corpus(corpus, p) /\ pc' = "batches"
    /\ hist' = [hist EXCEPT !.nShuffle = @ + 1]
    /\ UNCHANGED <<clf, orig, n_epochs, mode, i, idx, batches, cur, fwd,
                   prev_hidden, loss, grads, running_loss, trace, y_pred, y_true,
                   ckptVars, topVars>>

\* enumerate(corpus_encoder.get_batches(corpus, self.batch_size))
GetBatches ==
    /\ mode = "train" /\ pc = "batches"
    /\ batches' = get_batches(corpus, clf.batch_size)
    /\ idx' = 0
    /\ pc' = "next_batch"
    /\ UNCHANGED <<clf, corpus, orig, n_epochs, mode, i, cur, fwd, prev_hidden,
                   loss, grads, running_loss, trace, hist, y_pred, y_true,
                   ckptVars, topVars>>

\* next batch of the epoch and its tensors, or the epoch is over (the values
\* the body's local names still hold are never read again: they are dropped)
NextBatch ==
    /\ mode = "train" /\ pc = "next_batch"
    /\ IF batches = <<>>
       THEN /\ i' = i + 1 /\ pc' = "epoch"
            /\ cur' = None /\ fwd' = None /\ loss' = None
            /\ UNCHANGED <<batches, trace, hist>>
       ELSE /\ cur' = batch_to_tensors(Head(batches))
            /\ batches' = Tail(batches)
            /\ trace' = <<>>
            /\ hist' = [hist EXCEPT !.nBatch = @ + 1]
            /\ pc' = TrainSteps[1]
            /\ i' = i
            /\ UNCHANGED <<fwd, loss>>
    /\ UNCHANGED <<clf, corpus, orig, n_epochs, mode, idx, prev_hidden,
                   grads, running_loss, y_pred, y_true, ckptVars, topVars>>

\* fwd_out = self.forward(cur_insts, cur_lengths, self.hidden_in)
ForwardStep ==
    /\ mode \in {"train", "predict"} /\ pc = "forward"
    /\ fwd' = forward(clf, cur.insts, cur.lengths, clf.hidden_in)
    /\ prev_hidden' = IF fwd = None THEN None ELSE fwd.hidden
    /\ pc' = IF fwd'.err = "none" THEN After("forward") ELSE "raised"
    /\ trace' = Append(trace, "forward")
    /\ hist' = [hist EXCEPT !.nForward = @ + 1, !.undetached = @ + 1]
    /\ UNCHANGED <<clf, corpus, orig, n_epochs, mode, i, idx, batches, cur, loss,
                   grads, running_loss, y_pred, y_true, ckptVars, topVars>>

\* loss = self.loss(fwd_out, cur_labels)
LossStep ==
    /\ mode = "train" /\ pc = "loss"
    /\ loss' = [nll_of |-> fwd.y, target |-> cur.labels]
    /\ pc' = After("loss")
    /\ trace' = Append(trace, "loss")
    /\ UNCHANGED <<clf, corpus, orig, n_epochs, mode, i, idx, batches, cur, fwd,
                   prev_hidden, grads, running_loss, hist, y_pred, y_true,
                   ckptVars, topVars>>

\* optimizer.zero_grad()
ZeroGrad ==
    /\ mode = "train" /\ pc = "zero_grad"
    /\ grads' = <<>>
    /\ pc' = After("zero_grad")
    /\ trace' = Append(trace, "zero_grad")
    /\ UNCHANGED <<clf, corpus, orig, n_epochs, mode, i, idx, batches, cur, fwd,
                   prev_hidden, loss, running_loss, hist, y_pred, y_true,
                   ckptVars, topVars>>

\* loss.backward(): adds this batch's gradients to the accumulated ones
Backward ==
    /\ mode = "train" /\ pc = "backward"
    /\ grads' = Append(grads, <<i, idx>>)
    /\ pc' = After("backward")
    /\ trace' = Append(trace, "backward")
    /\ UNCHANGED <<clf, corpus, orig, n_epochs, mode, i, idx, batches, cur, fwd,
                   prev_hidden, loss, running_loss, hist, y_pred, y_true,
                   ckptVars, topVars>>

\* optimizer.step(): the parameters move to values the optimizer chooses from
\* the accumulated gradients
OptimizerStep ==
    /\ mode = "train" /\ pc = "step"
    /\ \E w \in 0..MaxWeight : clf' = [clf EXCEPT !.weights = w]
    /\ hist' = [hist EXCEPT !.nStep = @ + 1, !.applied = grads]
    /\ pc' = After("step")
    /\ trace' = Append(trace, "step")
    /\ UNCHANGED <<corpus, orig, n_epochs, mode, i, idx, batches, cur, fwd,
                   prev_hidden, loss, grads, running_loss, y_pred, y_true,
                   ckptVars, topVars>>

\* self.detach_hidden_()
DetachStep ==
    /\ mode \in {"train", "predict"} /\ pc = "detach"
    /\ clf' = detach_hidden_(clf)
    /\ hist' = [hist EXCEPT !.nDetach = @ + 1, !.undetached = 0]
    /\ pc' = After("detach")
    /\ trace' = Append(trace, "detach")
    /\ UNCHANGED <<corpus, orig, n_epochs, mode, i, idx, batches, cur, fwd,
                   prev_hidden, loss, grads, running_loss, y_pred, y_true,
                   ckptVars, topVars>>

\* running_loss += loss.item(), printed and reset every PrintEvery batches;
\* end of the body
Accumulate ==
    /\ mode = "train" /\ pc = "accumulate"
    /\ running_loss' = IF idx % PrintEvery = PrintEvery - 1 THEN 0
                       ELSE running_loss + 1
    /\ idx' = idx + 1
    /\ pc' = After("accumulate")
    /\ trace' = Append(trace, "accumulate")
    /\ UNCHANGED <<clf, corpus, orig, n_epochs, mode, i, batches, cur, fwd,
                   prev_hidden, loss, grads, hist, y_pred, y_true, ckptVars,
                   topVars>>

\* predict entered: self.eval(), empty result lists, the batch generator
PredictCall ==
    /\ pc \in {"idle", "returned"}
    /\ mode' = "predict"
    /\ clf' = [clf EXCEPT !.training = FALSE]
    /\ y_pred' = <<>> /\ y_true' = <<>>
    /\ batches' = get_batches(corpus, clf.batch_size)
    /\ i' = 0 /\ idx' = 0 /\ cur' = None /\ fwd' = None
    /\ prev_hidden' = None /\ loss' = None /\ running_loss' = 0
    /\ trace' = <<>> /\ hist' = NoHist
    /\ pc' = "next_batch"
    /\ UNCHANGED <<corpus, orig, n_epochs, grads, ckptVars, topVars>>

\* next batch, its tensors and y_true.extend(cur_labels), or return
PredictNextBatch ==
    /\ mode = "predict" /\ pc = "next_batch"
    /\ IF batches = <<>>
       THEN /\ pc' = "returned"
            /\ UNCHANGED <<batches, cur, trace, hist, y_true>>
       ELSE /\ cur' = batch_to_tensors(Head(batches))
            /\ batches' = Tail(batches)
            /\ y_true' = y_true \o Head(batches).labels
            /\ trace' = <<>>
            /\ hist' = [hist EXCEPT !.nBatch = @ + 1]
            /\ pc' = PredictSteps[1]
    /\ UNCHANGED <<clf, corpus, orig, n_epochs, mode, i, idx, fwd, prev_hidden,
                   loss, grads, running_loss, y_pred, ckptVars, topVars>>

\* cur_preds = argmax of each row; y_pred.extend(cur_preds); end of the body
Argmax ==
    /\ mode = "predict" /\ pc = "argmax"
    /\ y_pred' = y_pred \o [j \in DOMAIN fwd.y |-> [argmax_of |-> fwd.y[j]]]
    /\ idx' = idx + 1
    /\ pc' = After("argmax")
    /\ trace' = Append(trace, "argmax")
    /\ UNCHANGED <<clf, corpus, orig, n_epochs, mode, i, batches, cur, fwd,
                   prev_hidden, loss, grads, running_loss, hist, y_true,
                   ckptVars, topVars>>

Next ==
    \/ TrainCall \/ EpochNext \/ ShuffleCorpus \/ GetBatches \/ NextBatch
    \/ ForwardStep \/ LossStep \/ ZeroGrad \/ Backward \/ OptimizerStep
    \/ DetachStep \/ Accumulate
    \/ PredictCall \/ PredictNextBatch \/ Argmax

Spec == Init /\ [][Next]_vars

\* label paired with instance f in the corpus as first given
OrigLabel(f) ==
    orig.labels[CHOOSE j \in DOMAIN orig.fname_subset : orig.fname_subset[j] = f]

\* the (instance, label) pairs of a corpus with their multiplicities
PairBag(c) ==
    LET z == zip_lists(c.fname_subset, c.labels)
    IN  [pr \in Range(z) |-> Cardinality({j \in DOMAIN z : z[j] = pr})]

\* C4: within an epoch (and within predict), the forward pass of a batch after
\* the first starts from the final hidden state the previous batch's forward
\* pass produced (cut to the current batch).
C4_HiddenCarriedToNextBatch ==
    (mode \in {"train", "predict"} /\ pc = After("forward") /\ idx > 0) =>
        fwd.hidden0 = TruncateHidden(prev_hidden, Len(cur.lengths))

\* C8: every training batch runs forward, loss, zero_grad, backward, step,
\* detach, accumulate in this order; the optimizer step applies the gradients
\* of the current batch alone (cleared before its back-propagation); one step
\* per batch; every epoch is preceded by one shuffle; train_model returns after
\* exactly n_epochs epochs.
C8_TrainStepOrder ==
    mode = "train" =>
        /\ (pc = "next_batch" /\ trace # <<>>) =>
              trace = <<"forward", "loss", "zero_grad", "backward", "step",
                        "detach", "accumulate">>
        /\ (trace # <<>> /\ trace[Len(trace)] = "step") =>
              hist.applied = << <<i, idx>> >>
        /\ hist.nStep <= hist.nBatch
        /\ pc = "next_batch" => hist.nStep = hist.nBatch
        /\ pc \in {"batches", "next_batch"} \cup Range(TrainSteps) =>
              hist.nShuffle = i + 1
        /\ pc = "returned" =>
              /\ i = n_epochs
              /\ hist.nShuffle = n_epochs
              /\ hist.nStep = hist.nBatch

\* train_model returned after two epochs of at least two batches each
C8_Witness ==
    /\ mode = "train" /\ pc = "returned"
    /\ n_epochs = 2 /\ hist.nBatch >= 4 /\ hist.nStep = hist.nBatch

\* C9 as stated: in train_model and in predict every forward pass is followed
\* by a detach before the next forward pass starts and before the loop returns.
C9_DetachFollowsEveryForward ==
    mode \in {"train", "predict"} =>
        /\ pc = "forward" => hist.undetached = 0
        /\ pc = "returned" => hist.undetached = 0

\* C9 amended: hidden_in is detached exactly once per batch in both loops and
\* no forward pass starts while an earlier one of the call is undetached; in
\* train_model the detach follows the forward pass, so nothing is undetached at
\* the return; in predict the detach precedes the forward pass of the same
\* batch, so the last batch's forward pass is not followed by a detach.
C9_DetachOncePerBatch ==
    /\ mode \in {"train", "predict"} =>
          /\ pc = "forward" => hist.undetached = 0
          /\ pc = "next_batch" =>
                hist.nDetach = hist.nBatch /\ hist.nForward = hist.nBatch
          /\ pc = "returned" =>
                hist.nDetach = hist.nBatch /\ hist.nForward = hist.nBatch
    /\ mode = "train" =>
          /\ pc = "forward" => hist.nDetach = hist.nBatch - 1
          /\ pc \in {"next_batch", "epoch", "returned"} => hist.undetached = 0
    /\ mode = "predict" =>
          /\ pc = "forward" => hist.nDetach = hist.nBatch
          /\ pc = "returned" =>
                hist.undetached = IF hist.nBatch > 0 THEN 1 ELSE 0

\* predict returned after two batches or more
C9_Witness ==
    /\ mode = "predict" /\ pc = "returned"
    /\ hist.nBatch >= 2 /\ hist.nDetach = hist.nBatch /\ hist.undetached = 1

\* C10: whatever the shuffles did, fname_subset and labels keep their length,
\* the label at each position is the one first paired with the instance at
\* that position, and the multiset of (instance, label) pairs is unchanged.
C10_ShuffleKeepsPairing ==
    /\ Len(corpus.fname_subset) = Len(orig.fname_subset)
    /\ Len(corpus.labels) = Len(orig.labels)
    /\ \A j \in DOMAIN corpus.fname_subset :
          corpus.labels[j] = OrigLabel(corpus.fname_subset[j])
    /\ PairBag(corpus) = PairBag(orig)

\* two shuffles happened and the corpus, with differing labels, is reordered
C10_Witness ==
    /\ hist.nShuffle >= 2
    /\ corpus.fname_subset # orig.fname_subset
    /\ corpus.labels # orig.labels

\* ----------------------------------------- forward called on one batch
\* (the call of the module's __main__ block: gru.forward(X, lengths, gru.hidden_in))
InitForward ==
    /\ \E nl \in 1..MaxLayers, nlab \in 1..MaxLabels, bs \in 1..MaxBatch :
          clf = GRUClassifier([n_layers |-> nl, hidden_dim |-> 1, vocab_size |-> 1,
                               padding_idx |-> 0, embedding_dim |-> 1, dropout |-> 0,
                               label_size |-> nlab, batch_size |-> bs], 0)
    /\ corpus = EmptyCorpus /\ orig = EmptyCorpus
    /\ \E n \in 1..MaxBatch : \E lens \in [1..n -> 0..MaxLen] :
          cur = [insts |-> [j \in 1..n |-> j], labels |-> [j \in 1..n |-> 0],
                 lengths |-> lens]
    /\ n_epochs = 0 /\ pc = "idle" /\ mode = "none" /\ i = 0 /\ idx = 0
    /\ batches = <<>> /\ fwd = None /\ prev_hidden = None
    /\ loss = None /\ grads = <<>> /\ running_loss = 0 /\ trace = <<>>
    /\ hist = NoHist /\ y_pred = <<>> /\ y_true = <<>>
    /\ CkptIdle /\ TopIdle

ForwardCall ==
    /\ pc = "idle"
    /\ fwd' = forward(clf, cur.insts, cur.lengths, clf.hidden_in)
    /\ pc' = "fwd_done"
    /\ UNCHANGED <<clf, corpus, orig, n_epochs, mode, i, idx, batches, cur,
                   prev_hidden, loss, grads, running_loss, trace, hist, y_pred,
                   y_true, ckptVars, topVars>>

NextForward == ForwardCall

SpecForward == InitForward /\ [][NextForward]_vars

Positive(lengths) == \A j \in DOMAIN lengths : lengths[j] > 0

\* C1: when forward returns, column j of the per-timestep outputs, column j of
\* every layer of the final hidden state and row j of the returned
\* log-probabilities are those computed from input sequence j (its embedding
\* and its length): the gather by sort is undone by the gather by unsort.
C1_ForwardRestoresBatchOrder ==
    (pc = "fwd_done" /\ fwd.err = "none") =>
        /\ Len(fwd.gru_out) = Len(cur.insts)
        /\ Len(fwd.y) = Len(cur.insts)
        /\ \A j \in DOMAIN cur.insts :
              /\ fwd.gru_out[j].seq = [emb_of |-> cur.insts[j]]
              /\ fwd.gru_out[j].len = cur.lengths[j]
              /\ \A l \in DOMAIN fwd.hidden :
                    /\ fwd.hidden[l][j].seq = [emb_of |-> cur.insts[j]]
                    /\ fwd.hidden[l][j].len = cur.lengths[j]
                    /\ fwd.hidden[l][j].layer = l
              /\ fwd.y[j].logp_of = fwd.hidden[clf.n_gru_layers][j]

\* a batch whose sort permutation is not its own inverse went through forward
C1_Witness ==
    /\ pc = "fwd_done" /\ fwd.err = "none"
    /\ fwd.sort # fwd.unsort

\* C2: for positive lengths, sort and unsort are permutations of the batch
\* positions, unsort[sort[j]] = j, the lengths gathered by sort are
\* non-increasing, and these are the lengths forward hands to the packing step.
C2_SortUnsortInverseDescending ==
    (pc = "fwd_done" /\ Positive(cur.lengths)) =>
        LET n == Len(cur.lengths)
        IN  /\ fwd.sort \in Perms(n)
            /\ fwd.unsort \in Perms(n)
            /\ \A j \in 1..n : fwd.unsort[fwd.sort[j]] = j
            /\ IsDescending(Gather(cur.lengths, fwd.sort))
            /\ fwd.packed_lengths = Gather(cur.lengths, fwd.sort)
            /\ IsDescending(fwd.packed_lengths)

\* lengths that are not already descending, with a tie, were sorted
C2_Witness ==
    /\ pc = "fwd_done" /\ Positive(cur.lengths)
    /\ ~IsDescending(cur.lengths)
    /\ \E a, b \in DOMAIN cur.lengths : a # b /\ cur.lengths[a] = cur.lengths[b]

\* C3: for a batch of n sequences, 1 <= n <= batch_size (positive lengths),
\* forward does not fail, the initial hidden state is cut to n columns in
\* every layer, and the result has n rows of label_size columns.
C3_OneRowPerExample ==
    (pc = "fwd_done" /\ Positive(cur.lengths)
        /\ Len(cur.lengths) <= clf.batch_size) =>
        /\ fwd.err = "none"
        /\ \A l \in DOMAIN fwd.hidden0 : Len(fwd.hidden0[l]) = Len(cur.lengths)
        /\ Len(fwd.y) = Len(cur.lengths)
        /\ \A j \in DOMAIN fwd.y : fwd.y[j].n_cols = clf.n_labels

\* an under-full batch of one sequence went through forward
C3_Witness ==
    /\ pc = "fwd_done" /\ Positive(cur.lengths)
    /\ Len(cur.lengths) = 1 /\ clf.batch_size > 1
    /\ fwd.err = "none" /\ Len(fwd.y) = 1

\* ------------------------------------------------------ save and load
\* faulty variant: embedding_dim is saved from hidden_dim
net_params_emb_from_hidden(c) ==
    [n_layers      |-> c.n_gru_layers,
     hidden_dim    |-> c.hidden_dim,
     vocab_size    |-> c.vocab_size,
     padding_idx   |-> c.word_embeddings.padding_idx,
     embedding_dim |-> c.hidden_dim,
     dropout       |-> c.dropout,
     label_size    |-> c.n_labels,
     batch_size    |-> c.batch_size]

\* net_params of save: the constructor's keyword arguments
net_params_of(c) ==
    [n_layers      |-> c.n_gru_layers,
     hidden_dim    |-> c.hidden_dim,
     vocab_size    |-> c.vocab_size,
     padding_idx   |-> c.word_embeddings.padding_idx,
     embedding_dim |-> c.emb_dim,
     dropout       |-> c.dropout,
     label_size    |-> c.n_labels,
     batch_size    |-> c.batch_size]

\* self.state_dict(): the registered parameters (hidden_in is a plain
\* attribute, no parameter and no buffer)
state_dict(c) == [shapes |-> ParamShapes(c), values |-> c.weights]

\* TorchUtils.save_model(state, f_model, dir_model): the state is written as
\* one unit to the named file
save_model(fs, state, f_model) == [fs EXCEPT ![f_model] = state]

\* TorchUtils.load_model(f_model, dir_model): the state read back, or a
\* not-found error for an absent file
load_model(fs, f_model) ==
    IF fs[f_model] = NoFile
    THEN [err |-> "FileNotFoundError"]
    ELSE [err |-> "none", state |-> fs[f_model]]

\* classifier.load_state_dict(sd), strict: the shapes must be the module's
load_state_dict(c, sd) ==
    IF sd.shapes # ParamShapes(c)
    THEN [err |-> "RuntimeError: size mismatch"]
    ELSE [err |-> "none", classifier |-> [c EXCEPT !.weights = sd.values]]

\* faulty variant: an absent file yields a default, randomly initialised
\* classifier and nothing is validated
load_default_when_missing(fs, f_model, w0) ==
    LET r == load_model(fs, f_model)
    IN  IF r.err # "none"
        THEN [file |-> f_model, found |-> FALSE, err |-> "none",
              constructed |-> TRUE,
              classifier |-> [DefaultClf EXCEPT !.weights = w0]]
        ELSE [file |-> f_model, found |-> TRUE, err |-> "none",
              constructed |-> TRUE,
              classifier |-> load_state_dict(
                  GRUClassifier(r.state.net_params, w0),
                  r.state.state_dict).classifier]

\* GRUClassifier.load(f_model, dir_model); w0 are the values the constructor
\* draws for the parameters
load(fs, f_model, w0) ==
    LET r == load_model(fs, f_model)
    IN  IF r.err # "none"
        THEN [file |-> f_model, found |-> FALSE, err |-> r.err,
              constructed |-> FALSE, classifier |-> None]
        ELSE IF DOMAIN r.state.net_params # CtorArgs
        THEN [file |-> f_model, found |-> TRUE, err |-> "TypeError",
              constructed |-> FALSE, classifier |-> None]
        ELSE
        LET classifier == GRUClassifier(r.state.net_params, w0)
            l == load_state_dict(classifier, r.state.state_dict)
        IN  IF l.err # "none"
            THEN [file |-> f_model, found |-> TRUE, err |-> l.err,
                  constructed |-> TRUE, classifier |-> None]
            ELSE [file |-> f_model, found |-> TRUE, err |-> "none",
                  constructed |-> TRUE, classifier |-> l.classifier]

InitCheckpoint ==
    /\ \E nl \in 1..MaxLayers, hd \in 1..MaxHyper, vs \in 1..MaxHyper,
          ed \in 1..MaxHyper, dr \in {0, 50}, ls \in 1..MaxLabels,
          bs \in 1..MaxBatch, w \in 0..MaxWeight, tr \in BOOLEAN :
          \E pi \in 0..(vs - 1) :
             clf = [GRUClassifier([n_layers |-> nl, hidden_dim |-> hd,
                                   vocab_size |-> vs, padding_idx |-> pi,
                                   embedding_dim |-> ed, dropout |-> dr,
                                   label_size |-> ls, batch_size |-> bs], w)
                    EXCEPT !.training = tr]
    /\ corpus = EmptyCorpus /\ orig = EmptyCorpus
    /\ LoopIdle /\ CkptIdle /\ TopIdle

\* self.save(f_model)
Save(f_model) ==
    /\ files' = save_model(files,
                           [net_params |-> net_params_of(clf),
                            state_dict |-> state_dict(clf)],
                           f_model)
    /\ saved_from' = [saved_from EXCEPT ![f_model] = clf]
    /\ UNCHANGED <<clf, corpus, orig, loopVars, loaded, topVars>>

\* GRUClassifier.load(f_model)
Load(f_model) ==
    /\ \E w0 \in 0..MaxWeight : loaded' = load(files, f_model, w0)
    /\ UNCHANGED <<clf, corpus, orig, loopVars, files, saved_from, topVars>>

NextCheckpoint == \E f_model \in Files : Save(f_model) \/ Load(f_model)

SpecCheckpoint == InitCheckpoint /\ [][NextCheckpoint]_vars

\* the eight constructor hyperparameters of a classifier
Hyper(c) ==
    <<c.n_gru_layers, c.hidden_dim, c.vocab_size, c.word_embeddings.padding_idx,
      c.emb_dim, c.dropout, c.n_labels, c.batch_size>>

\* C5: a checkpoint file holds exactly the constructor's eight keywords, and
\* loading a saved file succeeds with a classifier that has the
\* hyperparameters, the parameter values and the initial hidden state of the
\* classifier that was saved.
C5_CheckpointRoundTrip ==
    /\ \A f \in Files : files[f] # NoFile =>
          DOMAIN files[f].net_params = CtorArgs
    /\ (loaded # None /\ loaded.found) =>
          /\ loaded.err = "none"
          /\ Hyper(loaded.classifier) = Hyper(saved_from[loaded.file])
          /\ state_dict(loaded.classifier) = state_dict(saved_from[loaded.file])
          /\ loaded.classifier.hidden_in = saved_from[loaded.file].hidden_in

\* a saved classifier whose dimensions all differ pairwise where they can was
\* loaded back
C5_Witness ==
    /\ loaded # None /\ loaded.found /\ loaded.err = "none"
    /\ saved_from[loaded.file].hidden_dim # saved_from[loaded.file].emb_dim
    /\ saved_from[loaded.file].n_labels # saved_from[loaded.file].batch_size
    /\ saved_from[loaded.file].weights # 0

\* C6: load of an absent file ends in the not-found error, no constructor was
\* called and no classifier is returned.
C6_LoadMissingFails ==
    (loaded # None /\ ~loaded.found) =>
        /\ loaded.err = "FileNotFoundError"
        /\ ~loaded.constructed
        /\ loaded.classifier = None

\* an absent file was asked for while another checkpoint exists
C6_Witness ==
    /\ loaded # None /\ ~loaded.found
    /\ files[loaded.file] = NoFile
    /\ \E f \in Files : files[f] # NoFile

\* ------------------------------------- get_top_items_dict on one mapping
InitTopItems ==
    /\ clf = DefaultClf /\ corpus = EmptyCorpus /\ orig = EmptyCorpus
    /\ LoopIdle /\ CkptIdle
    /\ \E n \in 0..MaxItems : \E sc \in [1..n -> 0..MaxScore] :
          data_dict = [j \in 1..n |-> <<j, sc[j]>>]
    /\ k \in -1..(MaxItems + 1)
    /\ order \in BOOLEAN
    /\ top = None

TopItemsCall ==
    /\ top = None
    /\ top' = get_top_items_dict(data_dict, k, order)
    /\ UNCHANGED <<clf, corpus, orig, loopVars, ckptVars, data_dict, k, order>>

NextTopItems == TopItemsCall

SpecTopItems == InitTopItems /\ [][NextTopItems]_vars

Keys(items) == {items[j][1] : j \in DOMAIN items}

\* C7: for k >= 0 the result has min(k, size) entries with distinct keys, each
\* an entry of the mapping with its own score, and no entry left out scores
\* higher than a returned one; with k above the size every entry is returned.
C7_TopItems ==
    (top # None /\ k >= 0) =>
        /\ Len(top.items) = Min(k, Len(data_dict))
        /\ Cardinality(Keys(top.items)) = Len(top.items)
        /\ Range(top.items) \subseteq Range(data_dict)
        /\ \A r \in Range(top.items) : \A u \in Range(data_dict) \ Range(top.items) :
              r[2] >= u[2]
        /\ (k > Len(data_dict) => Range(top.items) = Range(data_dict))

\* a proper, non-empty selection was made from scores that are not all equal
C7_Witness ==
    /\ top # None /\ k >= 1 /\ k < Len(data_dict)
    /\ \E a, b \in DOMAIN data_dict : data_dict[a][2] < data_dict[b][2]

=============================================================================
